---- MODULE Spec2Model ----
(***************************************************************************)
(* A model of the HTTP server of this repository:                          *)
(*   - the worker thread pool of rust_http_server/src/server.rs            *)
(*     (ThreadPool::new, ThreadPool::execute, Worker::new, Drop),          *)
(*   - the router of src/router.rs (registration, handle, match_path).     *)
(* Strings are sequences of one-character strings, so that splitting a     *)
(* path on '/' is computed rather than assumed.                            *)
(***************************************************************************)
EXTENDS Integers, Sequences, FiniteSets, TLC

(***************************************************************************)
(* Bounds of the model.                                                    *)
(***************************************************************************)
\* Number of worker threads of the pool (ThreadPool::new(size), size > 0).
NWorkers == 2
\* Number of jobs the producer submits at most.
MaxJobs == 3

Workers == 1..NWorkers
Jobs == 1..MaxJobs
NoWorker == 0

\* What a job's closure does when it is run: return, or panic.
JobKinds == {"ok", "panic"}

\* What the job Server::run submits for a connection does when it is run:
\* HttpRequest::parse succeeds and the response is sent, parse fails with
\* UnexpectedEof or with InvalidData, or the handler panics.
ConnKinds == {"conn_ok", "conn_eof", "conn_invalid", "panic"}

\* The connections whose request does not parse.
ParseErrKinds == {"conn_eof", "conn_invalid"}

\* Jobs as above, and jobs whose closure never returns (a read from a client
\* that sends nothing and keeps the connection open).
StallKinds == JobKinds \cup {"forever"}

VARIABLES
    \* ---- thread pool (server.rs) ----
    queue,        \* the mpsc channel's buffer: jobs sent and not yet received
    senderAlive,  \* the pool's Sender has not been dropped
    lockHolder,   \* the worker holding the Mutex around the Receiver, or NoWorker
    poisoned,     \* the Mutex is poisoned
    wpc,          \* each worker thread's position
    wjob,         \* the job a worker is running (0: none)
    mainPc,       \* the position of the thread that owns the pool
    unwinding,    \* the owner is unwinding from a panic
    joinIdx,      \* Drop::drop's position in `for worker in &mut self.workers`
    submitted,    \* number of jobs execute() has sent
    kind,         \* the behaviour of each submitted job
    runs,         \* how many times each job's closure was called
    takenBy,      \* the workers that received each job
    deqOrder,     \* the jobs in the order they were received
    counter,      \* the shared counter of tests::test_thread_pool_execute
    written,      \* how many times a response was written to each job's connection
    \* ---- router (router.rs) ----
    middlewares,        \* Router.middlewares
    routes,             \* Router.routes
    not_found_handler,  \* Router.not_found_handler (NoHandler: None)
    regMws,             \* history: the arguments of use_middleware, in call order
    regRoutes,          \* history: the arguments of add_route, in call order
    handled,            \* the last call of handle: its request, response and
                        \* the functions it invoked (NotHandled: none since
                        \* the router last changed)
    \* ---- match_path applied to drawn inputs ----
    mpPattern, mpNames, mpPath,
    mpOut,              \* the value match_path returned (Unset: not yet called)
    mpStored,           \* mpNames is the list add_route stored for mpPattern
    \* ---- HttpRequest::parse applied to a drawn byte stream (http.rs) ----
    psStream,           \* the bytes the peer sent before closing
    psOut,              \* what parse returned (NotParsed: not yet called)
    \* ---- an HttpResponse under construction (http.rs) ----
    response,           \* the HttpResponse value (NoResponse: none built yet)
    respBytes,          \* what to_bytes returned for it (NotSerialized: not called)
    bodies              \* ghost: the strings given to with_body, in order

poolVars == <<queue, senderAlive, lockHolder, poisoned, wpc, wjob, mainPc,
              unwinding, joinIdx, submitted, kind, runs, takenBy, deqOrder,
              counter, written>>

routerVars == <<middlewares, routes, not_found_handler, regMws, regRoutes,
                handled>>

matchVars == <<mpPattern, mpNames, mpPath, mpOut, mpStored>>

parseVars == <<psStream, psOut>>

respVars == <<response, respBytes, bodies>>

codecVars == <<parseVars, respVars>>

nonPoolVars == <<routerVars, matchVars, codecVars>>

vars == <<poolVars, routerVars, matchVars, codecVars>>

(***************************************************************************)
(* Thread pool                                                             *)
(***************************************************************************)

\* A worker thread has ended (left its loop or died of a panic).
Terminated(w) == wpc[w] \in {"exited", "panicked"}

\* Mutant of ReceiverAlive: send never finds the Receiver gone.
ReceiverAlwaysAlive == TRUE

\* The Receiver lives in an Arc held by the worker closures only: it is
\* dropped when the last worker thread has ended.
ReceiverAlive == \E w \in Workers : ~Terminated(w)

\* The owner's process is still running.
ProcessAlive == mainPc # "aborted"

\* Mutant of Enqueue: the message is put at the front of the buffer.
EnqueueFront(q, j) == <<j>> \o q

\* mpsc::Sender::send: the message goes to the back of the buffer.
Enqueue(q, j) == Append(q, j)

\* mpsc::Receiver::recv on a non-empty buffer: the message received.
RecvJob(q) == Head(q)

\* Mutant of RecvRest: the received message stays in the buffer.
RecvRestKeep(q) == q

\* Mutant of RecvRest: receiving empties the buffer.
RecvRestDropAll(q) == <<>>

\* mpsc::Receiver::recv on a non-empty buffer: the buffer afterwards.
RecvRest(q) == Tail(q)

InitPool ==
    /\ queue = <<>>
    /\ senderAlive = TRUE
    /\ lockHolder = NoWorker
    /\ poisoned = FALSE
    /\ wpc = [w \in Workers |-> "idle"]
    /\ wjob = [w \in Workers |-> 0]
    /\ mainPc = "serving"
    /\ unwinding = FALSE
    /\ joinIdx = 1
    /\ submitted = 0
    /\ kind = [j \in Jobs |-> "none"]
    /\ runs = [j \in Jobs |-> 0]
    /\ takenBy = [j \in Jobs |-> {}]
    /\ deqOrder = <<>>
    /\ counter = 0
    /\ written = [j \in Jobs |-> 0]

\* ThreadPool::execute(f): self.sender.send(Box::new(f)).unwrap().
\* send fails only when the Receiver is gone; unwrap then panics.
Execute(k) ==
    /\ mainPc = "serving"
    /\ submitted < MaxJobs
    /\ IF ReceiverAlive
       THEN /\ submitted' = submitted + 1
            /\ kind' = [kind EXCEPT ![submitted + 1] = k]
            /\ queue' = Enqueue(queue, submitted + 1)
            /\ UNCHANGED <<mainPc, unwinding>>
       ELSE /\ mainPc' = "exec_panicked"
            /\ unwinding' = TRUE
            /\ UNCHANGED <<submitted, kind, queue>>
    /\ UNCHANGED <<senderAlive, lockHolder, poisoned, wpc, wjob, joinIdx,
                   runs, takenBy, deqOrder, counter>>
    /\ UNCHANGED written
    /\ UNCHANGED nonPoolVars

\* Worker loop, `receiver.lock().unwrap()`: take the Mutex; a poisoned Mutex
\* makes unwrap panic (the guard is dropped by the unwinding).
WorkerLock(w) ==
    /\ ProcessAlive
    /\ wpc[w] = "idle"
    /\ lockHolder = NoWorker
    /\ IF poisoned
       THEN /\ wpc' = [wpc EXCEPT ![w] = "panicked"]
            /\ UNCHANGED lockHolder
       ELSE /\ wpc' = [wpc EXCEPT ![w] = "recv"]
            /\ lockHolder' = w
    /\ UNCHANGED <<queue, senderAlive, poisoned, wjob, mainPc, unwinding,
                   joinIdx, submitted, kind, runs, takenBy, deqOrder, counter>>
    /\ UNCHANGED written
    /\ UNCHANGED nonPoolVars

\* Mutant of GuardAfterRecv: the guard lives on while the job runs (as in
\* `while let Ok(job) = receiver.lock().unwrap().recv() { job(); }`).
GuardAfterRecvHeld(w) == w

\* The holder of the Mutex when `let message = receiver.lock().unwrap().recv();`
\* is over: the guard is a temporary of that statement and is dropped at
\* its end.
GuardAfterRecv(w) == NoWorker

\* Worker loop, `.recv()` returns Ok(job): the guard (a temporary of the
\* `let message = ...;` statement) is dropped at the end of the statement,
\* and then `job()` is called.
WorkerRecvJob(w) ==
    /\ ProcessAlive
    /\ wpc[w] = "recv"
    /\ lockHolder = w
    /\ queue # <<>>
    /\ LET j == RecvJob(queue) IN
        /\ queue' = RecvRest(queue)
        /\ wjob' = [wjob EXCEPT ![w] = j]
        /\ runs' = [runs EXCEPT ![j] = @ + 1]
        /\ takenBy' = [takenBy EXCEPT ![j] = @ \cup {w}]
        /\ deqOrder' = Append(deqOrder, j)
    /\ lockHolder' = GuardAfterRecv(w)
    /\ wpc' = [wpc EXCEPT ![w] = "run"]
    /\ UNCHANGED <<senderAlive, poisoned, mainPc, unwinding, joinIdx,
                   submitted, kind, counter>>
    /\ UNCHANGED written
    /\ UNCHANGED nonPoolVars

\* Worker loop, `.recv()` returns Err: the buffer is empty and every Sender
\* is dropped; the worker prints "shutting down" and breaks.
WorkerRecvClosed(w) ==
    /\ ProcessAlive
    /\ wpc[w] = "recv"
    /\ lockHolder = w
    /\ queue = <<>>
    /\ ~senderAlive
    /\ lockHolder' = NoWorker
    /\ wpc' = [wpc EXCEPT ![w] = "exited"]
    /\ UNCHANGED <<queue, senderAlive, poisoned, wjob, mainPc, unwinding,
                   joinIdx, submitted, kind, runs, takenBy, deqOrder, counter>>
    /\ UNCHANGED written
    /\ UNCHANGED nonPoolVars

\* Mutant of Returns: a job that would never finish is cut short and
\* returns.
ReturnsInTheEnd(k) == k \in {"ok", "forever"}

\* `job()` is called with nothing around it (no timeout, no cancellation):
\* it is over when the closure itself returns.
Returns(k) == k = "ok"

\* `job()` returns: the closure of the test increments the shared counter;
\* the worker goes round its loop.
JobReturn(w) ==
    /\ ProcessAlive
    /\ wpc[w] = "run"
    /\ Returns(kind[wjob[w]])
    /\ counter' = counter + 1
    /\ wpc' = [wpc EXCEPT ![w] = "idle"]
    /\ wjob' = [wjob EXCEPT ![w] = 0]
    /\ UNCHANGED <<queue, senderAlive, lockHolder, poisoned, mainPc,
                   unwinding, joinIdx, submitted, kind, runs, takenBy,
                   deqOrder>>
    /\ UNCHANGED written
    /\ UNCHANGED nonPoolVars

\* Mutant of WritesResponse: a response is written whatever parse returned.
WritesResponseAlways(k) == TRUE

\* handle_connection: `HttpRequest::parse(&mut stream)?` returns early on
\* Err, so write_all is reached only after a successful parse.
WritesResponse(k) == k = "conn_ok"

\* `job()` is the closure of Server::run and returns: handle_connection
\* parsed the request, or failed to; on Ok the response went through
\* write_all once, on Err the closure printed the error. The worker goes
\* round its loop.
HandleConnection(w) ==
    /\ ProcessAlive
    /\ wpc[w] = "run"
    /\ kind[wjob[w]] \in ConnKinds \ {"panic"}
    /\ written' = IF WritesResponse(kind[wjob[w]])
                  THEN [written EXCEPT ![wjob[w]] = @ + 1]
                  ELSE written
    /\ wpc' = [wpc EXCEPT ![w] = "idle"]
    /\ wjob' = [wjob EXCEPT ![w] = 0]
    /\ UNCHANGED <<queue, senderAlive, lockHolder, poisoned, mainPc,
                   unwinding, joinIdx, submitted, kind, runs, takenBy,
                   deqOrder, counter>>
    /\ UNCHANGED nonPoolVars

\* Mutant of PoisonsLock: any panic of a worker poisons the Mutex.
PoisonsLockAlways(w) == TRUE

\* std::sync::Mutex: a guard dropped while its thread is panicking poisons
\* the Mutex; a thread that holds no guard leaves it as it is.
PoisonsLock(w) == lockHolder = w

\* `job()` panics: nothing in the loop catches it, the thread unwinds and
\* ends. The Mutex guard was released before job() was called, so the
\* unwinding finds no guard to drop.
JobPanic(w) ==
    /\ ProcessAlive
    /\ wpc[w] = "run"
    /\ kind[wjob[w]] = "panic"
    /\ wpc' = [wpc EXCEPT ![w] = "panicked"]
    /\ wjob' = [wjob EXCEPT ![w] = 0]
    /\ poisoned' = (poisoned \/ PoisonsLock(w))
    /\ lockHolder' = IF lockHolder = w THEN NoWorker ELSE lockHolder
    /\ UNCHANGED <<queue, senderAlive, mainPc,
                   unwinding, joinIdx, submitted, kind, runs, takenBy,
                   deqOrder, counter>>
    /\ UNCHANGED written
    /\ UNCHANGED nonPoolVars

\* The pool goes out of scope (or its owner unwinds): Drop::drop starts.
\* `drop(&self.sender)` drops a reference, not the Sender: the channel stays
\* open.
DropStart ==
    /\ mainPc \in {"serving", "exec_panicked"}
    /\ mainPc' = "dropping"
    /\ joinIdx' = 1
    /\ UNCHANGED <<queue, senderAlive, lockHolder, poisoned, wpc, wjob,
                   unwinding, submitted, kind, runs, takenBy, deqOrder,
                   counter>>
    /\ UNCHANGED written
    /\ UNCHANGED nonPoolVars

\* Drop::drop, one turn of `for worker in &mut self.workers`:
\* `thread.join().unwrap()` waits for the thread to end; Err (the thread
\* panicked) makes unwrap panic, which aborts the process when the owner is
\* already unwinding. When drop is left, by return or by unwinding, the
\* fields are dropped, the Sender among them.
DropJoin ==
    /\ mainPc = "dropping"
    /\ Terminated(joinIdx)
    /\ IF wpc[joinIdx] = "exited"
       THEN IF joinIdx = NWorkers
            THEN /\ mainPc' = "dropped"
                 /\ senderAlive' = FALSE
                 /\ UNCHANGED joinIdx
            ELSE /\ joinIdx' = joinIdx + 1
                 /\ UNCHANGED <<mainPc, senderAlive>>
       ELSE IF unwinding
            THEN /\ mainPc' = "aborted"
                 /\ UNCHANGED <<joinIdx, senderAlive>>
            ELSE /\ mainPc' = "drop_panicked"
                 /\ senderAlive' = FALSE
                 /\ UNCHANGED joinIdx
    /\ UNCHANGED <<queue, lockHolder, poisoned, wpc, wjob, unwinding,
                   submitted, kind, runs, takenBy, deqOrder, counter>>
    /\ UNCHANGED written
    /\ UNCHANGED nonPoolVars

WorkerStep(w) ==
    \/ WorkerLock(w)
    \/ WorkerRecvJob(w)
    \/ WorkerRecvClosed(w)
    \/ JobReturn(w)
    \/ JobPanic(w)


(***************************************************************************)
(* Router: strings, match_path, registration, handle                       *)
(***************************************************************************)

\* Longest pattern and path, in characters, drawn for match_path.
MaxLen == 3
\* Most middleware registered with use_middleware.
MaxMws == 3
\* Most routes registered with add_route.
MaxRoutes == 2

Alphabet == {"/", ":", "a", "b"}

\* Every string over Alphabet of at most n characters.
StringsUpTo(n) == UNION {[1..k -> Alphabet] : k \in 0..n}

RECURSIVE SplitFrom(_, _, _, _)
\* str::split(d) as a loop over the characters from position i: `cur` is
\* the segment being read, `acc` the segments finished.
SplitFrom(s, i, cur, acc) ==
    IF i > Len(s) THEN Append(acc, cur)
    ELSE IF s[i] = "/" THEN SplitFrom(s, i + 1, <<>>, Append(acc, cur))
    ELSE SplitFrom(s, i + 1, Append(cur, s[i]), acc)

\* s.split('/').collect(): one more segment than s has '/', empty segments
\* kept ("" gives one empty segment).
Split(s) == SplitFrom(s, 1, <<>>, <<>>)

\* seg.starts_with(':')
IsParam(seg) == Len(seg) >= 1 /\ seg[1] = ":"

\* Mutant of ParamName: the ':' is kept in the name.
ParamNameWithColon(seg) == seg

\* extract_param_names: `seg[1..].to_string()`.
ParamName(seg) == SubSeq(seg, 2, Len(seg))

RECURSIVE ParamNamesFrom(_, _)
ParamNamesFrom(segs, i) ==
    IF i > Len(segs) THEN <<>>
    ELSE IF IsParam(segs[i])
         THEN <<ParamName(segs[i])>> \o ParamNamesFrom(segs, i + 1)
         ELSE ParamNamesFrom(segs, i + 1)

\* extract_param_names(pattern): the ':' segments without their ':'.
extract_param_names(pattern) == ParamNamesFrom(Split(pattern), 1)

\* HashMap::insert on a map kept as a set of <<key, value>> pairs.
MapInsert(m, k, v) == {e \in m : e[1] # k} \cup {<<k, v>>}

NoMatch == [called |-> TRUE, ok |-> FALSE, params |-> {}]
Matched(params) == [called |-> TRUE, ok |-> TRUE, params |-> params]
\* match_path has not been called.
Unset == [called |-> FALSE, ok |-> FALSE, params |-> {}]

\* Mutant of SegCountDiffers: the segment counts are not compared.
SegCountIgnored(ps, xs) == FALSE

\* match_path: `pattern_segments.len() != path_segments.len()`.
SegCountDiffers(ps, xs) == Len(ps) # Len(xs)

\* Mutant of LiteralDiffers: static segments are not compared.
LiteralDiffersNever(pseg, xseg) == FALSE

\* match_path: `pattern_seg != path_seg` on a static segment.
LiteralDiffers(pseg, xseg) == pseg # xseg

RECURSIVE MatchLoop(_, _, _, _, _, _)
\* match_path's loop over pattern_segments.iter().zip(path_segments.iter()),
\* from position i, with param_index pidx and the params map so far.
MatchLoop(ps, xs, names, i, pidx, params) ==
    IF i > Len(ps) \/ i > Len(xs) THEN Matched(params)
    ELSE IF IsParam(ps[i])
         THEN IF pidx < Len(names)
              THEN MatchLoop(ps, xs, names, i + 1, pidx + 1,
                             MapInsert(params, names[pidx + 1], xs[i]))
              ELSE MatchLoop(ps, xs, names, i + 1, pidx, params)
         ELSE IF LiteralDiffers(ps[i], xs[i]) THEN NoMatch
              ELSE MatchLoop(ps, xs, names, i + 1, pidx, params)

\* match_path(pattern, param_names, path): None is NoMatch, Some(params)
\* is Matched(params).
match_path(pattern, names, path) ==
    LET ps == Split(pattern)
        xs == Split(path)
    IN  IF SegCountDiffers(ps, xs) THEN NoMatch
        ELSE MatchLoop(ps, xs, names, 1, 0, {})

\* ---- responses ----

\* A response body: a fixed text (`text`), or a text built by handler h
\* from the request's params or path.
Body(text, h, params, path) ==
    [text |-> text, h |-> h, params |-> params, path |-> path]

\* Response::ok(r#"{"status": "ok"}"#), the working response of handle.
\* `marks` records, in order, the middleware that had the response in hand.
DefaultResponse == [status |-> 200, body |-> Body("status_ok", 0, {}, <<>>), marks |-> <<>>]

\* Response::not_found(r#"{"error": "Not Found"}"#)
GenericNotFound ==
    [status |-> 404, body |-> Body("error_not_found", 0, {}, <<>>), marks |-> <<>>]

\* What a registered route handler returns: a response built from the
\* handler and the request it was given (its params included).
HandlerResponse(h, req) ==
    [status |-> 200, body |-> Body("handler", h, req.params, <<>>), marks |-> <<>>]

\* What a registered not-found handler returns.
NotFoundResponse(req) ==
    [status |-> 404, body |-> Body("custom_not_found", 0, {}, req.path), marks |-> <<>>]

\* ---- middleware ----

\* The middleware functions that are registered: each returns Continue or
\* Stop and either leaves the response's status and body or replaces them
\* (as `*res = Response::unauthorized(..)` in auth_middleware would).
MwInputs ==
    { [name |-> "log",  result |-> "Continue", replaces |-> FALSE],
      [name |-> "tag",  result |-> "Continue", replaces |-> TRUE],
      [name |-> "gate", result |-> "Stop",     replaces |-> FALSE],
      [name |-> "auth", result |-> "Stop",     replaces |-> TRUE] }

\* The response after middleware m has run on it.
MwApply(m, resp) ==
    [status |-> IF m.replaces THEN 401 ELSE resp.status,
     body   |-> IF m.replaces THEN Body("unauthorized", 0, {}, <<>>) ELSE resp.body,
     marks  |-> Append(resp.marks, m.name)]

\* One invocation made by handle: the i-th middleware (of that name), the
\* handler of the i-th route, or the not-found handler.
Call(t, i, name) == [t |-> t, i |-> i, name |-> name]

\* Mutant of StopsChain: Stop is treated as Continue.
StopsChainNever(result) == FALSE

\* handle: `MiddlewareResult::Stop => return response`.
StopsChain(result) == result = "Stop"

\* Mutant of MwAt: the middleware are visited from the last to the first.
MwAtReversed(mws, i) == mws[Len(mws) + 1 - i]

\* handle: the i-th turn of `for middleware in &self.middlewares`.
MwAt(mws, i) == mws[i]

RECURSIVE RunMiddlewares(_, _, _, _)
\* handle's middleware loop from turn i: the response in hand, the calls
\* made so far; the result says whether a middleware stopped the chain.
RunMiddlewares(mws, i, resp, calls) ==
    IF i > Len(mws) THEN [stopped |-> FALSE, resp |-> resp, calls |-> calls]
    ELSE LET m  == MwAt(mws, i)
             r2 == MwApply(m, resp)
             c2 == Append(calls, Call("mw", i, m.name))
         IN  IF StopsChain(m.result)
             THEN [stopped |-> TRUE, resp |-> r2, calls |-> c2]
             ELSE RunMiddlewares(mws, i + 1, r2, c2)

\* Mutant of MethodDiffers: the method is not compared.
MethodIgnored(route, req) == FALSE

\* handle: `route.method != request.method`.
MethodDiffers(route, req) == route.method # req.method

RECURSIVE MatchRoutes(_, _, _)
\* handle's route loop from turn i: the index of the route whose handler
\* is called and the params installed on the request (0: no route).
MatchRoutes(rs, i, req) ==
    IF i > Len(rs) THEN [idx |-> 0, params |-> {}]
    ELSE IF MethodDiffers(rs[i], req) THEN MatchRoutes(rs, i + 1, req)
    ELSE LET m == match_path(rs[i].pattern, rs[i].param_names, req.path)
         IN  IF m.ok THEN [idx |-> i, params |-> m.params]
             ELSE MatchRoutes(rs, i + 1, req)

NoHandler == "none"

\* Mutant of RouteResult: the working response is returned.
RouteResultWorking(working, fromHandler) == working

\* handle: `return (route.handler)(&request)`: the handler's value is the
\* result, the working response is dropped.
RouteResult(working, fromHandler) == fromHandler

\* handle has not been called since the router last changed.
NotHandled ==
    [done |-> FALSE, req |-> [method |-> "", path |-> <<>>],
     resp |-> DefaultResponse, calls |-> <<>>]

\* Router::handle(http_req): the response returned and the functions called.
Handle(mws, rs, nf, http_req) ==
    LET req0 == [method |-> http_req.method, path |-> http_req.path,
                 params |-> {}]
        mwr  == RunMiddlewares(mws, 1, DefaultResponse, <<>>)
    IN  IF mwr.stopped THEN [resp |-> mwr.resp, calls |-> mwr.calls]
        ELSE LET hit == MatchRoutes(rs, 1, req0)
                 req == [req0 EXCEPT !.params = hit.params]
             IN  IF hit.idx # 0
                 THEN [resp  |-> RouteResult(mwr.resp,
                                             HandlerResponse(rs[hit.idx].handler, req)),
                       calls |-> Append(mwr.calls, Call("route", hit.idx, ""))]
                 ELSE IF nf # NoHandler
                 THEN [resp  |-> NotFoundResponse(req0),
                       calls |-> Append(mwr.calls, Call("not_found", 0, ""))]
                 ELSE [resp |-> GenericNotFound, calls |-> mwr.calls]

\* The methods and patterns routes are registered with, and the requests.
Methods == {"GET", "POST"}
RoutePatterns == { <<"/", "a">>, <<"/", ":", "a">> }
RequestPaths == { <<"/", "a">>, <<"/", "b">>, <<"/", "a", "/", "b">> }

\* Router::new(), and no call of handle yet.
InitRouter ==
    /\ middlewares = <<>>
    /\ routes = <<>>
    /\ not_found_handler = NoHandler
    /\ regMws = <<>>
    /\ regRoutes = <<>>
    /\ handled = NotHandled

\* Router::use_middleware(middleware)
use_middleware(m) ==
    /\ Len(middlewares) < MaxMws
    /\ middlewares' = Append(middlewares, m)
    /\ regMws' = Append(regMws, m)
    /\ handled' = NotHandled
    /\ UNCHANGED <<routes, not_found_handler, regRoutes>>
    /\ UNCHANGED <<poolVars, matchVars, codecVars>>

\* Router::add_route(method, pattern, handler) (get and post call it); the
\* handlers registered are distinct closures, named by their order.
add_route(method, pattern) ==
    /\ Len(routes) < MaxRoutes
    /\ LET h == Len(regRoutes) + 1 IN
        /\ routes' = Append(routes,
                            [method |-> method, pattern |-> pattern,
                             param_names |-> extract_param_names(pattern),
                             handler |-> h])
        /\ regRoutes' = Append(regRoutes,
                               [method |-> method, pattern |-> pattern,
                                handler |-> h])
    /\ handled' = NotHandled
    /\ UNCHANGED <<middlewares, not_found_handler, regMws>>
    /\ UNCHANGED <<poolVars, matchVars, codecVars>>

\* Router::not_found(handler)
not_found ==
    /\ not_found_handler = NoHandler
    /\ not_found_handler' = "custom"
    /\ handled' = NotHandled
    /\ UNCHANGED <<middlewares, routes, regMws, regRoutes>>
    /\ UNCHANGED <<poolVars, matchVars, codecVars>>

\* Router::handle(http_req) on a parsed request.
handle(method, path) ==
    /\ LET http_req == [method |-> method, path |-> path]
           out == Handle(middlewares, routes, not_found_handler, http_req)
       IN  handled' = [done |-> TRUE, req |-> http_req, resp |-> out.resp,
                       calls |-> out.calls]
    /\ UNCHANGED <<middlewares, routes, not_found_handler, regMws, regRoutes>>
    /\ UNCHANGED <<poolVars, matchVars, codecVars>>

\* ---- match_path on drawn inputs ----

NameLists == { <<>>, << <<"a">> >>, << <<"a">>, <<"b">> >> }

InitMatchIdle ==
    /\ mpPattern = <<>>
    /\ mpNames = <<>>
    /\ mpPath = <<>>
    /\ mpOut = Unset
    /\ mpStored = FALSE

\* Patterns and paths longer than MaxLen that are drawn as well: two ':'
\* segments with different names and with the same name.
LongPatterns ==
    { <<"/", ":", "a", "/", ":", "b">>, <<"/", ":", "a", "/", ":", "a">> }
LongPaths == { <<"/", "a", "/", "b">>, <<"/", "b", "/", "a">> }

InitMatch ==
    /\ mpPattern \in StringsUpTo(MaxLen) \cup LongPatterns
    /\ mpPath \in StringsUpTo(MaxLen) \cup LongPaths
    /\ mpNames \in NameLists
    /\ mpOut = Unset
    /\ mpStored = FALSE

\* One call of match_path on the drawn pattern, names and path.
ApplyMatchPath ==
    /\ ~mpOut.called
    /\ mpOut' = match_path(mpPattern, mpNames, mpPath)
    /\ UNCHANGED <<mpPattern, mpNames, mpPath, mpStored>>
    /\ UNCHANGED <<poolVars, routerVars, codecVars>>

\* add_route(_, mpPattern, _) stores extract_param_names(mpPattern) with
\* the route; handle then calls match_path with the stored list.
ApplyStoredMatch ==
    /\ ~mpOut.called
    /\ mpNames' = extract_param_names(mpPattern)
    /\ mpOut' = match_path(mpPattern, mpNames', mpPath)
    /\ mpStored' = TRUE
    /\ UNCHANGED <<mpPattern, mpPath>>
    /\ UNCHANGED <<poolVars, routerVars, codecVars>>

(***************************************************************************)
(* Codec: HttpRequest::parse                                               *)
(***************************************************************************)

\* Longest first part of a drawn stream, in characters.
MaxHead == 6

\* char::is_whitespace on the characters that occur.
IsWs(c) == c \in {" ", "\t", "\r", "\n"}

UpperCase == <<"A", "B", "C", "D", "E", "F", "G", "H", "I", "J", "K", "L", "M",
               "N", "O", "P", "Q", "R", "S", "T", "U", "V", "W", "X", "Y", "Z">>
LowerCase == <<"a", "b", "c", "d", "e", "f", "g", "h", "i", "j", "k", "l", "m",
               "n", "o", "p", "q", "r", "s", "t", "u", "v", "w", "x", "y", "z">>
DecimalDigits == <<"0", "1", "2", "3", "4", "5", "6", "7", "8", "9">>

\* str::to_lowercase, one character.
LowerChar(c) ==
    IF \E i \in 1..26 : UpperCase[i] = c
    THEN LowerCase[CHOOSE i \in 1..26 : UpperCase[i] = c]
    ELSE c

\* str::to_lowercase
ToLower(s) == [i \in 1..Len(s) |-> LowerChar(s[i])]

RECURSIVE TrimEnd(_)
\* str::trim_end
TrimEnd(s) ==
    IF s # <<>> /\ IsWs(s[Len(s)]) THEN TrimEnd(SubSeq(s, 1, Len(s) - 1)) ELSE s

RECURSIVE TrimStart(_)
\* str::trim_start
TrimStart(s) ==
    IF s # <<>> /\ IsWs(s[1]) THEN TrimStart(Tail(s)) ELSE s

\* str::trim
Trim(s) == TrimStart(TrimEnd(s))

RECURSIVE LineEnd(_, _)
\* BufRead::read_line from position pos <= Len(s): the position of the
\* last byte it reads (the next '\n', or the end of the stream).
LineEnd(s, pos) ==
    IF pos >= Len(s) \/ s[pos] = "\n" THEN pos ELSE LineEnd(s, pos + 1)

RECURSIVE ReadHeaderBlock(_, _, _)
\* parse's `loop`: read lines from pos until one is empty after trim_end;
\* read_line returning 0 bytes (end of stream) is the UnexpectedEof error.
ReadHeaderBlock(s, pos, lines) ==
    IF pos > Len(s) THEN [eof |-> TRUE, lines |-> lines, next |-> pos]
    ELSE LET e    == LineEnd(s, pos)
             line == TrimEnd(SubSeq(s, pos, e))
         IN  IF line = <<>> THEN [eof |-> FALSE, lines |-> lines, next |-> e + 1]
             ELSE ReadHeaderBlock(s, e + 1, Append(lines, line))

RECURSIVE SplitWsFrom(_, _, _, _)
SplitWsFrom(s, i, cur, acc) ==
    IF i > Len(s) THEN (IF cur = <<>> THEN acc ELSE Append(acc, cur))
    ELSE IF IsWs(s[i])
         THEN SplitWsFrom(s, i + 1, <<>>, IF cur = <<>> THEN acc ELSE Append(acc, cur))
         ELSE SplitWsFrom(s, i + 1, Append(cur, s[i]), acc)

\* str::split_whitespace().collect()
SplitWhitespace(s) == SplitWsFrom(s, 1, <<>>, <<>>)

\* Mutant of ColonAt: the line is split at its last colon.
ColonAtLast(s) ==
    IF \E i \in 1..Len(s) : s[i] = ":"
    THEN CHOOSE i \in 1..Len(s) : s[i] = ":" /\ \A j \in (i + 1)..Len(s) : s[j] # ":"
    ELSE 0

\* str::split_once(':'): the position of the first colon (0: None).
ColonAt(s) ==
    IF \E i \in 1..Len(s) : s[i] = ":"
    THEN CHOOSE i \in 1..Len(s) : s[i] = ":" /\ \A j \in 1..(i - 1) : s[j] # ":"
    ELSE 0

RECURSIVE ParseHeaders(_, _, _)
\* parse's `for line in &lines[1..]`, from line i, with the map so far.
ParseHeaders(lines, i, headers) ==
    IF i > Len(lines) THEN headers
    ELSE LET line == lines[i]
             c    == ColonAt(line)
         IN  IF c = 0 THEN ParseHeaders(lines, i + 1, headers)
             ELSE ParseHeaders(lines, i + 1,
                      MapInsert(headers,
                                ToLower(Trim(SubSeq(line, 1, c - 1))),
                                Trim(SubSeq(line, c + 1, Len(line)))))

DigitValue(c) == (CHOOSE i \in 1..10 : DecimalDigits[i] = c) - 1

IsDigit(c) == \E i \in 1..10 : DecimalDigits[i] = c

RECURSIVE DigitsValue(_, _)
DigitsValue(s, acc) ==
    IF s = <<>> THEN acc ELSE DigitsValue(Tail(s), acc * 10 + DigitValue(s[1]))

\* str::parse::<usize>(): an optional '+' and then one or more digits.
ParseUsize(s) ==
    LET digits == IF s # <<>> /\ s[1] = "+" THEN Tail(s) ELSE s
    IN  IF digits # <<>> /\ \A i \in 1..Len(digits) : IsDigit(digits[i])
        THEN [ok |-> TRUE, value |-> DigitsValue(digits, 0)]
        ELSE [ok |-> FALSE, value |-> 0]

\* The header name parse looks the body length up by.
ContentLengthKey == <<"c", "o", "n", "t", "e", "n", "t", "-", "l", "e", "n", "g", "t", "h">>

\* HashMap::get: the values stored under key k (none or one).
MapGet(m, k) == {e[2] : e \in {f \in m : f[1] = k}}

\* What parse returns: Ok(HttpRequest) or Err(io::Error of a kind); `stage`
\* says where an error arose.
ParseResult(k, stage, tokens, headers, body) ==
    [called |-> TRUE, kind |-> k, stage |-> stage,
     method  |-> IF Len(tokens) >= 1 THEN tokens[1] ELSE <<>>,
     path    |-> IF Len(tokens) >= 2 THEN tokens[2] ELSE <<>>,
     version |-> IF Len(tokens) >= 3 THEN tokens[3] ELSE <<>>,
     headers |-> headers, body |-> body]

ParseError(k, stage) == ParseResult(k, stage, <<>>, {}, <<>>)

\* parse has not been called.
NotParsed ==
    [called |-> FALSE, kind |-> "", stage |-> "", method |-> <<>>,
     path |-> <<>>, version |-> <<>>, headers |-> {}, body |-> <<>>]

\* Mutant of BodyWanted: the body is read to the end of the stream.
BodyWantedAll(s, from, length) == Len(s) - from + 1

\* parse: `body = vec![0; length]`, the number of bytes read_exact is asked
\* for.
BodyWanted(s, from, length) == length

\* Mutant of WrongTokenCount: at least three tokens are accepted.
WrongTokenCountBelow(parts) == Len(parts) < 3

\* parse: `parts.len() != 3`.
WrongTokenCount(parts) == Len(parts) # 3

\* HttpRequest::parse on a stream that holds the bytes s and is then closed.
Parse(s) ==
    LET blk == ReadHeaderBlock(s, 1, <<>>)
    IN  IF blk.eof THEN ParseError("UnexpectedEof", "headers")
        ELSE IF blk.lines = <<>> THEN ParseError("InvalidData", "request_line")
        ELSE LET parts == SplitWhitespace(blk.lines[1])
        IN  IF WrongTokenCount(parts) THEN ParseError("InvalidData", "request_line")
        ELSE LET headers == ParseHeaders(blk.lines, 2, {})
                 cl      == MapGet(headers, ContentLengthKey)
                 len     == IF cl = {} THEN [ok |-> FALSE, value |-> 0]
                            ELSE ParseUsize(CHOOSE v \in cl : TRUE)
                 want    == BodyWanted(s, blk.next, len.value)
        IN  IF ~len.ok THEN ParseResult("Ok", "", parts, headers, <<>>)
            ELSE IF Len(s) - blk.next + 1 < want
                 THEN ParseError("UnexpectedEof", "body")
                 ELSE ParseResult("Ok", "", parts, headers,
                                  SubSeq(s, blk.next, blk.next + want - 1))

\* The first part of a drawn stream: any characters of a request line.
HeadAlphabet == {"a", " ", "\n"}
StreamHeads == UNION {[1..k -> HeadAlphabet] : k \in 0..MaxHead}

\* The rest of a drawn stream: header lines, the blank line and a body.
StreamTails ==
    { <<>>,
      <<"\n">>,
      <<"\r", "\n">>,
      <<"K", ":", " ", "v", "\r", "\n", "\r", "\n">>,
      <<" ", "K", "e", "y", " ", ":", " ", " ", "v", " ", ":", "w", " ", "\r", "\n", "k", "e", "y", ":", "x", "\r", "\n", "\r", "\n">>,
      <<"a", ":", "b", ":", "c", "\n", "n", "o", "c", "o", "l", "o", "n", "\n", "\n">>,
      <<"C", "o", "n", "t", "e", "n", "t", "-", "L", "e", "n", "g", "t", "h", ":", " ", "2", "\r", "\n", "\r", "\n", "a", "b", "c">>,
      <<"C", "o", "n", "t", "e", "n", "t", "-", "L", "e", "n", "g", "t", "h", ":", " ", "2", "\r", "\n", "\r", "\n", "a">>,
      <<"c", "o", "n", "t", "e", "n", "t", "-", "l", "e", "n", "g", "t", "h", ":", " ", "x", "\n", "\n", "a", "b">>,
      <<"C", "o", "n", "t", "e", "n", "t", "-", "L", "e", "n", "g", "t", "h", ":", " ", "+", "1", "\n", "\n", "a", "b">>,
      <<"C", "o", "n", "t", "e", "n", "t", "-", "L", "e", "n", "g", "t", "h", ":", " ", "1", "0", "\n", "\n", "0", "1", "2", "3", "4", "5", "6", "7", "8", "9">>,
      <<"C", "o", "n", "t", "e", "n", "t", "-", "L", "e", "n", "g", "t", "h", ":", " ", "-", "1", "\n", "\n", "a", "b">>,
      <<"c", "o", "n", "t", "e", "n", "t", "-", "l", "e", "n", "g", "t", "h", ":", " ", "1", "\n", "C", "O", "N", "T", "E", "N", "T", "-", "L", "E", "N", "G", "T", "H", " ", ":", " ", "2", "\n", "\n", "a", "b">>,
      <<"C", "o", "n", "t", "e", "n", "t", "-", "L", "e", "n", "g", "t", "h", ":", "\n", "\n", "a", "b">> }

InitParseIdle ==
    /\ psStream = <<>>
    /\ psOut = NotParsed

InitParse ==
    /\ psStream \in {h \o t : h \in StreamHeads, t \in StreamTails}
    /\ psOut = NotParsed

\* One call of HttpRequest::parse on the drawn stream.
ApplyParse ==
    /\ ~psOut.called
    /\ psOut' = Parse(psStream)
    /\ UNCHANGED psStream
    /\ UNCHANGED <<poolVars, routerVars, matchVars, respVars>>

(***************************************************************************)
(* Codec: HttpResponse                                                     *)
(***************************************************************************)

\* Most with_body calls on one response.
MaxBodies == 2

\* str::as_bytes, one character: its UTF-8 encoding.
Utf8(c) == IF c = "é" THEN <<"0xC3", "0xA9">> ELSE <<c>>

RECURSIVE AsBytes(_)
\* str::as_bytes
AsBytes(str) == IF str = <<>> THEN <<>> ELSE Utf8(str[1]) \o AsBytes(Tail(str))

RECURSIVE FormatNat(_)
\* usize::to_string / Display for u16: decimal, no padding.
FormatNat(n) ==
    IF n < 10 THEN <<DecimalDigits[n + 1]>>
    ELSE FormatNat(n \div 10) \o <<DecimalDigits[(n % 10) + 1]>>

\* Mutant of BodyLen: the characters of the string are counted.
BodyLenChars(str) == Len(str)

\* with_body: `self.body.len()` after `self.body = body.as_bytes().to_vec()`.
BodyLen(str) == Len(AsBytes(str))

ServerKey == <<"S", "e", "r", "v", "e", "r">>
ServerValue == <<"R", "u", "s", "t", "H", "T", "T", "P", "/", "1", ".", "0">>
ContentTypeKey == <<"C", "o", "n", "t", "e", "n", "t", "-", "T", "y", "p", "e">>
ContentTypeValue == <<"a", "p", "p", "l", "i", "c", "a", "t", "i", "o", "n", "/", "j", "s", "o", "n">>
ContentLengthName == <<"C", "o", "n", "t", "e", "n", "t", "-", "L", "e", "n", "g", "t", "h">>

\* No HttpResponse has been built.
NoResponse ==
    [exists |-> FALSE, status_code |-> 0, status_text |-> <<>>,
     headers |-> {}, body |-> <<>>]

\* to_bytes has not been called on the response as it is.
NotSerialized == [called |-> FALSE, bytes |-> <<>>]

\* HttpResponse::new
NewResponse(status_code, status_text) ==
    [exists |-> TRUE, status_code |-> status_code, status_text |-> status_text,
     headers |-> MapInsert(MapInsert({}, ServerKey, ServerValue),
                           ContentTypeKey, ContentTypeValue),
     body |-> <<>>]

\* HttpResponse::with_body
WithBody(self, body) ==
    [self EXCEPT !.body = AsBytes(body),
                 !.headers = MapInsert(self.headers, ContentLengthName,
                                       FormatNat(BodyLen(body)))]

\* The status pairs of ok, created, bad_request, unauthorized, not_found
\* and internal_error.
StatusPairs ==
    { [status_code |-> 200, status_text |-> <<"O", "K">>],
      [status_code |-> 201, status_text |-> <<"C", "r", "e", "a", "t", "e", "d">>],
      [status_code |-> 400, status_text |-> <<"B", "a", "d", " ", "R", "e", "q", "u", "e", "s", "t">>],
      [status_code |-> 401, status_text |-> <<"U", "n", "a", "u", "t", "h", "o", "r", "i", "z", "e", "d">>],
      [status_code |-> 404, status_text |-> <<"N", "o", "t", " ", "F", "o", "u", "n", "d">>],
      [status_code |-> 500, status_text |-> <<"I", "n", "t", "e", "r", "n", "a", "l", " ", "S", "e", "r", "v", "e", "r", " ", "E", "r", "r", "o", "r">>] }

\* The strings given to with_body: empty, one byte, a two-byte character,
\* and ten bytes (a two-digit length).
BodyStrings ==
    { <<>>, <<"a">>, <<"é">>, <<"{", "}">>, <<"0", "1", "2", "3", "4", "5", "6", "7", "8", "9">> }

\* Mutant of Crlf: a bare line feed ends a line.
LfOnly == <<"\n">>

\* to_bytes: the "\r\n" of its three format strings.
Crlf == <<"\r", "\n">>

\* to_bytes: format!("HTTP/1.1 {} {}\r\n", status_code, status_text)
StatusLine(self) ==
    <<"H", "T", "T", "P", "/", "1", ".", "1", " ">> \o FormatNat(self.status_code)
        \o <<" ">> \o self.status_text \o Crlf

\* to_bytes: format!("{}: {}\r\n", key, value)
HeaderLine(e) == e[1] \o <<":", " ">> \o e[2] \o Crlf

RECURSIVE HeaderBytes(_, _)
\* to_bytes: `for (key, value) in &self.headers`, in the order `order`.
HeaderBytes(order, i) ==
    IF i > Len(order) THEN <<>> ELSE HeaderLine(order[i]) \o HeaderBytes(order, i + 1)

\* The orders a HashMap may iterate its entries in.
IterationOrders(m) ==
    {o \in [1..Cardinality(m) -> m] : \A i, j \in 1..Cardinality(m) : o[i] = o[j] => i = j}

\* HttpResponse::to_bytes, with the map iterated in the order `order`.
ToBytes(self, order) ==
    StatusLine(self) \o HeaderBytes(order, 1) \o Crlf \o self.body

InitResp ==
    /\ response = NoResponse
    /\ respBytes = NotSerialized
    /\ bodies = <<>>

\* HttpResponse::new(status_code, status_text)
new(st) ==
    /\ response' = NewResponse(st.status_code, st.status_text)
    /\ bodies' = <<>>
    /\ respBytes' = NotSerialized
    /\ UNCHANGED <<poolVars, routerVars, matchVars, parseVars>>

\* response.with_body(body)
with_body(body) ==
    /\ response.exists
    /\ Len(bodies) < MaxBodies
    /\ response' = WithBody(response, body)
    /\ bodies' = Append(bodies, body)
    /\ respBytes' = NotSerialized
    /\ UNCHANGED <<poolVars, routerVars, matchVars, parseVars>>

\* HttpResponse::ok(body) .. internal_error(body): new, then with_body.
convenience(st, body) ==
    /\ response' = WithBody(NewResponse(st.status_code, st.status_text), body)
    /\ bodies' = <<body>>
    /\ respBytes' = NotSerialized
    /\ UNCHANGED <<poolVars, routerVars, matchVars, parseVars>>

\* response.to_bytes()
to_bytes ==
    /\ response.exists
    /\ \E order \in IterationOrders(response.headers) :
           respBytes' = [called |-> TRUE, bytes |-> ToBytes(response, order)]
    /\ UNCHANGED <<response, bodies>>
    /\ UNCHANGED <<poolVars, routerVars, matchVars, parseVars>>

(***************************************************************************)
(* Specifications                                                          *)
(***************************************************************************)

Init == InitPool /\ InitRouter /\ InitMatchIdle /\ InitParseIdle /\ InitResp

Next ==
    \/ \E k \in JobKinds : Execute(k)
    \/ \E w \in Workers : WorkerStep(w)
    \/ DropStart
    \/ DropJoin

Spec == Init /\ [][Next]_vars

\* The operating system schedules every thread that can run: each worker
\* thread and the owner's join loop take a step they can take.
FairSpec ==
    /\ Spec
    /\ \A w \in Workers : WF_vars(WorkerStep(w))
    /\ WF_vars(DropJoin)

\* The pool as Server::run uses it: every job handles one connection.
ConnWorkerStep(w) ==
    \/ WorkerLock(w)
    \/ WorkerRecvJob(w)
    \/ WorkerRecvClosed(w)
    \/ HandleConnection(w)
    \/ JobPanic(w)

NextConn ==
    \/ \E k \in ConnKinds : Execute(k)
    \/ \E w \in Workers : ConnWorkerStep(w)
    \/ DropStart
    \/ DropJoin

SpecConn == Init /\ [][NextConn]_vars

\* The pool with jobs that may never return.
NextStall ==
    \/ \E k \in StallKinds : Execute(k)
    \/ \E w \in Workers : WorkerStep(w)
    \/ DropStart
    \/ DropJoin

SpecStall == Init /\ [][NextStall]_vars

\* The router: registration and handle, in any order.
NextRouter ==
    \/ \E m \in MwInputs : use_middleware(m)
    \/ \E method \in Methods, pattern \in RoutePatterns : add_route(method, pattern)
    \/ not_found
    \/ \E method \in Methods, path \in RequestPaths : handle(method, path)

SpecRouter == Init /\ [][NextRouter]_vars

\* match_path as a function: inputs drawn by the initial state.
NextMatch == ApplyMatchPath \/ ApplyStoredMatch

InitDrawn == InitPool /\ InitRouter /\ InitMatch /\ InitParseIdle /\ InitResp

SpecMatch == InitDrawn /\ [][NextMatch]_vars

\* HttpRequest::parse as a function: the stream drawn by the initial state.
InitStream == InitPool /\ InitRouter /\ InitMatchIdle /\ InitParse /\ InitResp

NextParse == ApplyParse

SpecParse == InitStream /\ [][NextParse]_vars

\* The response builders and to_bytes.
NextResp ==
    \/ \E st \in StatusPairs : new(st)
    \/ \E body \in BodyStrings : with_body(body)
    \/ \E st \in StatusPairs, body \in BodyStrings : convenience(st, body)
    \/ to_bytes

SpecResp == Init /\ [][NextResp]_vars

(***************************************************************************)
(* Claims about the thread pool                                            *)
(***************************************************************************)

\* C1: for every interleaving of execute and the workers, each submitted
\* job is received from the queue by at most one worker and its closure is
\* called at most once; jobs received were submitted.
C1_NoDoubleDequeue ==
    \A j \in Jobs :
        /\ Cardinality(takenBy[j]) <= 1
        /\ runs[j] <= 1
        /\ (runs[j] > 0 => j <= submitted)

\* C1 witness: every job was submitted and received, and both of two
\* different workers received some job.
C1_Witness ==
    /\ submitted = MaxJobs
    /\ \A j \in Jobs : runs[j] = 1
    /\ \E i, j \in Jobs : takenBy[i] # takenBy[j]

\* No submitted job panics.
NoFault == \A j \in Jobs : kind[j] # "panic"

\* C2: when K jobs that all return have been submitted and no further job
\* is submitted, the counter each job increments once eventually equals K;
\* the counter never exceeds the number of submitted jobs.
C2_AllJobsExecuted ==
    /\ [](counter <= submitted)
    /\ \A K \in 0..MaxJobs :
          (submitted = K /\ NoFault) ~> (counter = K \/ submitted > K \/ ~NoFault)

\* C2 witness: MaxJobs returning jobs were submitted and all have run.
C2_Witness ==
    /\ submitted = MaxJobs
    /\ NoFault
    /\ counter = MaxJobs

\* C3: pool teardown terminates: once Drop::drop has started it eventually
\* returns, with every worker out of its loop. Stated for the pools whose
\* jobs all return, where no panic stands in the way.
C3_TeardownTerminates ==
    (mainPc = "dropping" /\ NoFault)
        ~> (mainPc = "dropped" /\ \A w \in Workers : wpc[w] = "exited")

\* Drop::drop has been left (by return or by unwinding): the pool is gone.
TeardownOver == mainPc \in {"dropped", "drop_panicked"}

C5_FifoDequeue ==
    \A i \in 1..Len(deqOrder) : deqOrder[i] = i

\* C5 witness: two jobs were received, by different workers, and the
\* second was received while the first was still running.
C5_Witness ==
    /\ Len(deqOrder) >= 2
    /\ takenBy[1] # takenBy[2]
    /\ \E w, v \in Workers : w # v /\ wjob[w] = 1 /\ wjob[v] = 2

\* C6: a panic in a job does not remove the worker that ran it: while the
\* pool is serving, all NWorkers workers are still able to receive jobs.
C6_FaultKeepsWorker ==
    mainPc = "serving" =>
        Cardinality({w \in Workers : ~Terminated(w)}) = NWorkers

\* Every worker thread has ended: nothing is left to receive from the queue.
NoWorkerLeft == \A w \in Workers : wpc[w] \in {"exited", "panicked"}

\* C20: once no worker is left to receive, no step puts a job in the queue
\* or counts it as submitted, no job is run, and a call of execute ends in
\* a panic of the caller (the only way the owner leaves "serving" other
\* than by dropping the pool).
C20_SubmitAfterCloseFails ==
    /\ [](NoWorkerLeft => \A w \in Workers : wjob[w] = 0)
    /\ [][NoWorkerLeft =>
            /\ queue' = queue
            /\ submitted' = submitted
            /\ runs' = runs
            /\ (mainPc = "serving" /\ mainPc' \notin {"serving", "dropping"}) =>
                   (mainPc' = "exec_panicked" /\ unwinding')
         ]_vars

\* C20 witness: both workers are gone, a job was still to be submitted, and
\* execute has panicked in the caller.
C20_Witness ==
    /\ NoWorkerLeft
    /\ mainPc = "exec_panicked"
    /\ unwinding
    /\ submitted < MaxJobs

\* Every worker is inside a job that never finishes.
AllStalled == \A w \in Workers : wpc[w] = "run" /\ kind[wjob[w]] = "forever"

\* The jobs submitted and not yet received, in submission order.
Backlog == [i \in 1..(submitted - Len(deqOrder)) |-> Len(deqOrder) + i]

\* C21: once all NWorkers workers are executing jobs that never finish,
\* they stay there (nothing times a job out or cancels it) and no further
\* job is started; execute can still be called and returns at once, and
\* each call adds its job to the backlog, which holds every job submitted
\* since and never shrinks.
C21_StalledPoolStarves ==
    /\ [](AllStalled => queue = Backlog)
    /\ []((AllStalled /\ mainPc = "serving" /\ submitted < MaxJobs) =>
              ENABLED (\E k \in StallKinds : Execute(k)))
    /\ [][AllStalled =>
            /\ AllStalled'
            /\ runs' = runs
            /\ deqOrder' = deqOrder
            /\ (submitted' # submitted =>
                    /\ submitted' = submitted + 1
                    /\ mainPc' = "serving"
                    /\ queue' = Append(queue, submitted')
                    /\ Len(queue') = Len(queue) + 1)
            /\ Len(queue') >= Len(queue)
         ]_vars

\* C21 witness: both workers are stalled, every job has been submitted, and
\* the jobs submitted after the stalled ones wait in the queue, not started.
C21_Witness ==
    /\ AllStalled
    /\ submitted = MaxJobs
    /\ Len(queue) = MaxJobs - NWorkers
    /\ \A i \in 1..Len(queue) : runs[queue[i]] = 0 /\ kind[queue[i]] = "ok"

\* C22: a worker holds the lock on the receiver exactly while it is in the
\* receive, never while it runs a job: the step that starts a job is the
\* step that releases the lock; at most one worker is in the receive at a
\* time.
C22_LockOnlyForReceive ==
    /\ [](\A w \in Workers :
             /\ wpc[w] = "run" => lockHolder # w
             /\ lockHolder = w <=> wpc[w] = "recv")
    /\ [](Cardinality({w \in Workers : wpc[w] = "recv"}) <= 1)
    /\ [][\A w \in Workers :
            (wpc[w] # "run" /\ wpc'[w] = "run") =>
                (lockHolder = w /\ lockHolder' = NoWorker)
         ]_vars

\* C22 witness: all NWorkers workers are running jobs at once, different
\* ones, and the lock is free.
C22_Witness ==
    /\ \A w \in Workers : wpc[w] = "run" /\ wjob[w] # 0
    /\ \A w, v \in Workers : w # v => wjob[w] # wjob[v]
    /\ lockHolder = NoWorker

\* Some worker thread has died of a panic.
SomeWorkerPanicked == \E w \in Workers : wpc[w] = "panicked"

\* C23: a panic in a job leaves the lock on the receiver free and not
\* poisoned, and does not stop the other workers: every job submitted is
\* eventually received and run, unless no worker is left.
C23_FaultSparesOthers ==
    /\ [](~poisoned)
    /\ [](\A w \in Workers : Terminated(w) => lockHolder # w)
    /\ \A j \in Jobs :
          (SomeWorkerPanicked /\ submitted >= j) ~> (runs[j] >= 1 \/ NoWorkerLeft)

\* C23 witness: a job panicked and killed its worker, and a job submitted
\* after it has been received by another worker, which is still alive.
C23_Witness ==
    /\ ~poisoned
    /\ \E i, j \in Jobs, v \in Workers :
           /\ i < j
           /\ kind[i] = "panic"
           /\ \E w \in takenBy[i] : wpc[w] = "panicked" /\ w # v
           /\ takenBy[j] = {v}
           /\ Len(deqOrder) >= j
           /\ ~Terminated(v)

(***************************************************************************)
(* Claims about the router                                                 *)
(***************************************************************************)

\* The middleware registered before position i all return Continue.
AllContinueBefore(i) == \A j \in 1..(i - 1) : regMws[j].result = "Continue"

\* Some registered middleware returns Stop.
SomeStop == \E i \in 1..Len(regMws) : regMws[i].result = "Stop"

\* The position of the first registered middleware that returns Stop.
FirstStop ==
    CHOOSE k \in 1..Len(regMws) :
        regMws[k].result = "Stop" /\ AllContinueBefore(k)

\* The default 200 response after the first k registered middleware have
\* each made their mutation.
ResponseAfter(k) ==
    LET replaced == \E i \in 1..k : regMws[i].replaces
    IN  [status |-> IF replaced THEN 401 ELSE 200,
         body   |-> IF replaced THEN Body("unauthorized", 0, {}, <<>>)
                    ELSE Body("status_ok", 0, {}, <<>>),
         marks  |-> [i \in 1..k |-> regMws[i].name]]

\* The pattern and the path split on '/' into equally many segments, and
\* every pattern segment that does not start with ':' equals the path
\* segment at its position.
SegmentsAgree(pattern, path) ==
    LET ps == Split(pattern)
        xs == Split(path)
    IN  /\ Len(ps) = Len(xs)
        /\ \A i \in 1..Len(ps) :
             (ps[i] = <<>> \/ ps[i][1] # ":") => ps[i] = xs[i]

\* The registered routes, by position, that the request's method and path
\* select.
MatchingRoutes ==
    {i \in 1..Len(regRoutes) :
        /\ regRoutes[i].method = handled.req.method
        /\ SegmentsAgree(regRoutes[i].pattern, handled.req.path)}

\* The handlers handle invoked (route handlers and the not-found handler).
HandlerCalls == SelectSeq(handled.calls, LAMBDA c : c.t # "mw")

\* C7: when a middleware returns Stop, handle invoked exactly the middleware
\* registered up to and including it, no middleware after it, no route
\* handler and no not-found handler, and returned the working response as
\* it was when that middleware returned.
C7_StopShortCircuits ==
    (handled.done /\ SomeStop) =>
        /\ handled.calls = [i \in 1..FirstStop |-> Call("mw", i, regMws[i].name)]
        /\ HandlerCalls = <<>>
        /\ handled.resp = ResponseAfter(FirstStop)

\* C7 witness: the second of three middleware stopped, after the first
\* replaced the response, on a request that a registered route matches.
C7_Witness ==
    /\ handled.done
    /\ Len(regMws) = 3
    /\ SomeStop
    /\ FirstStop = 2
    /\ regMws[1].replaces
    /\ MatchingRoutes # {}
    /\ not_found_handler # NoHandler

\* C8: handle invokes the middleware in registration order, each at most
\* once: the i-th call is the i-th registered middleware, made exactly when
\* all those before it returned Continue; a route or not-found handler is
\* invoked only as the last call, after all n middleware returned Continue.
C8_MiddlewareOrder ==
    handled.done =>
        LET c == handled.calls
            n == Len(regMws)
        IN  /\ \A i \in 1..n :
                 AllContinueBefore(i) =>
                     Len(c) >= i /\ c[i] = Call("mw", i, regMws[i].name)
            /\ \A i \in 1..Len(c) :
                 /\ c[i].t = "mw" => i <= n /\ AllContinueBefore(i)
                 /\ c[i].t # "mw" =>
                        i = n + 1 /\ i = Len(c) /\ AllContinueBefore(n + 1)

\* C8 witness: three different middleware all returned Continue and a route
\* handler was invoked after them.
C8_Witness ==
    /\ handled.done
    /\ Len(regMws) = 3
    /\ regMws[1].name # regMws[2].name
    /\ regMws[2].name # regMws[3].name
    /\ Len(handled.calls) = 4
    /\ handled.calls[4].t = "route"

\* C9: when no middleware stops the chain and some registered route has
\* the request's method and a matching pattern, handle invokes exactly one
\* handler, that of the first such route in registration order, and
\* returns what it returned.
C9_FirstMatchingRoute ==
    (handled.done /\ ~SomeStop /\ MatchingRoutes # {}) =>
        LET f == CHOOSE i \in MatchingRoutes : \A j \in MatchingRoutes : i <= j
        IN  /\ HandlerCalls = <<Call("route", f, "")>>
            /\ handled.resp.body.text = "handler"
            /\ handled.resp.body.h = regRoutes[f].handler

\* C9 witness: two registered routes both have the request's method and a
\* matching pattern, the patterns differ, and the first one's handler ran.
C9_Witness ==
    /\ handled.done
    /\ ~SomeStop
    /\ MatchingRoutes = {1, 2}
    /\ regRoutes[1].pattern # regRoutes[2].pattern
    /\ handled.resp.body.h = 1

\* The number of '/' in s.
SlashCount(s) == Cardinality({i \in 1..Len(s) : s[i] = "/"})

\* C10: match_path returns a match iff pattern and path split on '/' into
\* the same number of segments (one more than the number of '/') and every
\* pattern segment not starting with ':' equals the path segment at its
\* position; the names passed do not matter.
C10_MatchIffSegmentsAgree ==
    mpOut.called =>
        /\ Len(Split(mpPattern)) = SlashCount(mpPattern) + 1
        /\ Len(Split(mpPath)) = SlashCount(mpPath) + 1
        /\ mpOut.ok <=> SegmentsAgree(mpPattern, mpPath)

\* C10 witness: a match in which a parameter segment stands against an
\* empty path segment, next to a non-empty literal segment.
C10_Witness ==
    /\ mpOut.called
    /\ mpOut.ok
    /\ \E i \in 1..Len(Split(mpPattern)) :
         IsParam(Split(mpPattern)[i]) /\ Split(mpPath)[i] = <<>>
    /\ \E i \in 1..Len(Split(mpPattern)) :
         ~IsParam(Split(mpPattern)[i]) /\ Split(mpPattern)[i] # <<>>

\* The positions of the ':' segments of a pattern, and the position of the
\* k-th of them.
ParamPositions(pattern) ==
    {p \in 1..Len(Split(pattern)) :
        Len(Split(pattern)[p]) >= 1 /\ Split(pattern)[p][1] = ":"}

ParamPosition(pattern, k) ==
    CHOOSE p \in ParamPositions(pattern) :
        Cardinality({q \in ParamPositions(pattern) : q <= p}) = k

\* The stored list names the ':' segments from left to right.
NamesAreParamSegments ==
    /\ Len(mpNames) = Cardinality(ParamPositions(mpPattern))
    /\ \A k \in 1..Len(mpNames) :
         <<":">> \o mpNames[k] = Split(mpPattern)[ParamPosition(mpPattern, k)]

\* C11 as stated: the stored list names the ':' segments in order, and on
\* a match the i-th name is bound to the path segment at the position of
\* the i-th ':' segment.
C11_Original ==
    mpStored =>
        /\ NamesAreParamSegments
        /\ mpOut.ok =>
             \A k \in 1..Len(mpNames) :
                 <<mpNames[k], Split(mpPath)[ParamPosition(mpPattern, k)]>>
                     \in mpOut.params

\* C11 amended: the stored list names the ':' segments in order, and on a
\* match each name is bound to exactly one value, the path segment at the
\* position of the last ':' segment bearing that name (the i-th one when
\* the names differ from each other).
C11_ParamsBound ==
    mpStored =>
        /\ NamesAreParamSegments
        /\ mpOut.ok =>
             mpOut.params =
                 { <<mpNames[k], Split(mpPath)[ParamPosition(mpPattern, k)]>> :
                     k \in {i \in 1..Len(mpNames) :
                              \A j \in (i + 1)..Len(mpNames) :
                                  mpNames[j] # mpNames[i]} }

\* C11 witness: a match of a pattern with two differently named ':'
\* segments, bound to two different path segments.
C11_Witness ==
    /\ mpStored
    /\ mpOut.ok
    /\ Len(mpNames) = 2
    /\ mpNames[1] # mpNames[2]
    /\ mpNames[1] # <<>>
    /\ mpNames[2] # <<>>
    /\ Cardinality(mpOut.params) = 2
    /\ \E e, f \in mpOut.params : e[2] # f[2]

\* C12: when no middleware stops the chain and no registered route has the
\* request's method and a matching pattern, no route handler is invoked
\* and handle returns the not-found handler's result if one is set, else
\* the response with status 404 and the body {"error": "Not Found"}.
C12_NotFoundFallback ==
    (handled.done /\ ~SomeStop /\ MatchingRoutes = {}) =>
        IF not_found_handler # NoHandler
        THEN /\ HandlerCalls = <<Call("not_found", 0, "")>>
             /\ handled.resp.body.text = "custom_not_found"
             /\ handled.resp.body.path = handled.req.path
             /\ handled.resp.marks = <<>>
        ELSE /\ HandlerCalls = <<>>
             /\ handled.resp.status = 404
             /\ handled.resp.body.text = "error_not_found"
             /\ handled.resp.marks = <<>>

\* C12 witness: no not-found handler is set, a middleware that replaces
\* the response has run, and the only route with a matching pattern has
\* another method: the generic 404 is returned.
C12_Witness ==
    /\ handled.done
    /\ ~SomeStop
    /\ MatchingRoutes = {}
    /\ not_found_handler = NoHandler
    /\ \E i \in 1..Len(regMws) : regMws[i].replaces
    /\ \E i \in 1..Len(regRoutes) :
         /\ regRoutes[i].method # handled.req.method
         /\ SegmentsAgree(regRoutes[i].pattern, handled.req.path)
    /\ handled.resp.status = 404

\* The params a route's pattern binds on a path it matches: each name of a
\* ':' segment with the path segment of its last occurrence.
BoundParams(pattern, path) ==
    LET ps == Split(pattern)
        P  == ParamPositions(pattern)
        Name(q) == SubSeq(ps[q], 2, Len(ps[q]))
    IN  { <<Name(q), Split(path)[q]>> :
            q \in {r \in P : \A t \in P : t > r => Name(t) # Name(r)} }

\* C13: when a registered route matches the request and every middleware
\* returns Continue, handle returns exactly what the first matching
\* route's handler returns for the request with its params installed:
\* status 200, the handler's body, and none of the middleware's mutations.
C13_HandlerResponseUnchanged ==
    (handled.done /\ ~SomeStop /\ MatchingRoutes # {}) =>
        LET f == CHOOSE i \in MatchingRoutes : \A j \in MatchingRoutes : i <= j
        IN  handled.resp =
                [status |-> 200,
                 body   |-> [text |-> "handler", h |-> regRoutes[f].handler,
                             params |-> BoundParams(regRoutes[f].pattern,
                                                    handled.req.path),
                             path |-> <<>>],
                 marks  |-> <<>>]

\* C13 witness: a middleware that replaces the working response (status
\* 401) returned Continue, and the matching route's handler, given a
\* bound parameter, produced the 200 response returned.
C13_Witness ==
    /\ handled.done
    /\ ~SomeStop
    /\ MatchingRoutes # {}
    /\ \E i \in 1..Len(regMws) : regMws[i].replaces
    /\ handled.resp.status = 200
    /\ handled.resp.body.params # {}

(***************************************************************************)
(* Claims about connection jobs                                            *)
(***************************************************************************)

\* C14: a job whose request does not parse writes nothing to its
\* connection and ends without touching anything but its own worker, which
\* goes back to waiting for a job; a response is written to a connection
\* at most once, and only by a job whose request parsed.
C14_ParseFailureWritesNothing ==
    /\ [](\A j \in Jobs :
            /\ written[j] <= 1
            /\ kind[j] \in ParseErrKinds => written[j] = 0
            /\ written[j] = 1 => kind[j] = "conn_ok" /\ runs[j] = 1)
    /\ [][\A w \in Workers :
            (wpc[w] = "run" /\ kind[wjob[w]] \in ParseErrKinds
                /\ wpc'[w] # "run") =>
                /\ wpc'[w] = "idle"
                /\ written' = written
                /\ mainPc' = mainPc
                /\ queue' = queue
                /\ \A v \in Workers \ {w} : wpc'[v] = wpc[v] /\ wjob'[v] = wjob[v]
         ]_vars

\* C14 witness: a worker ran a job whose request did not parse, nothing
\* was written for it, and the same worker then received a later job and
\* wrote its response.
C14_Witness ==
    \E w \in Workers : \E i, j \in Jobs :
        /\ i < j
        /\ kind[i] \in ParseErrKinds
        /\ takenBy[i] = {w}
        /\ takenBy[j] = {w}
        /\ written[i] = 0
        /\ written[j] = 1

(***************************************************************************)
(* Claims about the codec                                                  *)
(***************************************************************************)

\* The positions of the stream where a line starts.
LineStarts(s) == {p \in 1..Len(s) : p = 1 \/ s[p - 1] = "\n"}

\* The last position of the line that starts at p: its newline, or the end
\* of the stream when the peer closed inside the line.
LineLast(s, p) ==
    IF \E i \in p..Len(s) : s[i] = "\n"
    THEN CHOOSE i \in p..Len(s) : s[i] = "\n" /\ \A j \in p..(i - 1) : s[j] # "\n"
    ELSE Len(s)

LineAt(s, p) == SubSeq(s, p, LineLast(s, p))

AllWhitespace(l) == \A i \in 1..Len(l) : IsWs(l[i])

\* The lines that end the header block: nothing but whitespace in them.
BlankLines(s) == {p \in LineStarts(s) : AllWhitespace(LineAt(s, p))}

FirstBlank(s) == CHOOSE p \in BlankLines(s) : \A q \in BlankLines(s) : p <= q

\* The maximal runs of non-whitespace characters of a line, by start.
TokenStarts(l) == {i \in 1..Len(l) : ~IsWs(l[i]) /\ (i = 1 \/ IsWs(l[i - 1]))}

TokenAt(l, i) ==
    SubSeq(l, i, CHOOSE j \in i..Len(l) :
                     /\ \A k \in i..j : ~IsWs(l[k])
                     /\ (j = Len(l) \/ IsWs(l[j + 1])))

NthToken(l, n) ==
    TokenAt(l, CHOOSE i \in TokenStarts(l) :
                   Cardinality({j \in TokenStarts(l) : j < i}) = n - 1)

FirstLineTokens(s) == Cardinality(TokenStarts(LineAt(s, 1)))

\* A successful parse has a three-token first line and returns its tokens.
OkOnlyWithThreeTokens ==
    psOut.kind = "Ok" =>
        /\ psStream # <<>>
        /\ FirstLineTokens(psStream) = 3
        /\ psOut.method = NthToken(LineAt(psStream, 1), 1)
        /\ psOut.path = NthToken(LineAt(psStream, 1), 2)
        /\ psOut.version = NthToken(LineAt(psStream, 1), 3)

\* C15 as stated: a stream that closes before its first newline (and is
\* empty or has a token in it) gives UnexpectedEof, a complete first line that does not split into three
\* tokens gives InvalidData, and parse succeeds only on three tokens.
C15_Original ==
    psOut.called =>
        /\ ((~\E i \in 1..Len(psStream) : psStream[i] = "\n")
                /\ (psStream = <<>> \/ ~AllWhitespace(psStream))) =>
               psOut.kind = "UnexpectedEof"
        /\ ((\E i \in 1..Len(psStream) : psStream[i] = "\n")
                /\ FirstLineTokens(psStream) # 3) =>
               psOut.kind = "InvalidData"
        /\ OkOnlyWithThreeTokens

\* C15: parse returns UnexpectedEof when the stream closes before a blank
\* line (a line of nothing but whitespace) has been read; once there is a
\* blank line, a first line that does not split into exactly three
\* whitespace-separated tokens gives InvalidData; parse succeeds only when
\* the first line has exactly three tokens, which become method, path and
\* version in that order.
C15_RequestLineClassified ==
    psOut.called =>
        /\ BlankLines(psStream) = {} => psOut.kind = "UnexpectedEof"
        /\ (BlankLines(psStream) # {} /\ FirstLineTokens(psStream) # 3) =>
               psOut.kind = "InvalidData"
        /\ OkOnlyWithThreeTokens

\* A complete one-token request line, then the peer closes: UnexpectedEof.
C15_Witness ==
    /\ psOut.called
    /\ \E i \in 1..Len(psStream) : psStream[i] = "\n"
    /\ FirstLineTokens(psStream) = 1
    /\ BlankLines(psStream) = {}
    /\ psOut.kind = "UnexpectedEof"

\* The header lines of a stream whose header block is complete: the lines
\* after the first and before the blank line that have a colon.
HeaderLines(s) ==
    {p \in LineStarts(s) :
        /\ 1 < p
        /\ p < FirstBlank(s)
        /\ \E i \in 1..Len(LineAt(s, p)) : LineAt(s, p)[i] = ":"}

FirstColon(l) == CHOOSE i \in 1..Len(l) : l[i] = ":" /\ \A j \in 1..(i - 1) : l[j] # ":"

RawKey(s, p) == SubSeq(LineAt(s, p), 1, FirstColon(LineAt(s, p)) - 1)

HeaderKey(s, p) == ToLower(Trim(RawKey(s, p)))

HeaderValue(s, p) ==
    Trim(SubSeq(LineAt(s, p), FirstColon(LineAt(s, p)) + 1, Len(LineAt(s, p))))

\* The header map the stream stands for: of the lines with one key, the last.
StreamHeaders(s) ==
    {<<HeaderKey(s, p), HeaderValue(s, p)>> : p \in
        {q \in HeaderLines(s) :
            \A r \in HeaderLines(s) : HeaderKey(s, r) = HeaderKey(s, q) => r <= q}}

NoOuterWhitespace(t) == t = <<>> \/ (~IsWs(t[1]) /\ ~IsWs(t[Len(t)]))

NoUpperCase(t) == \A i \in 1..Len(t) : \A u \in 1..26 : t[i] # UpperCase[u]

\* C16: in a successfully parsed request every header key is lowercase and
\* has no whitespace at either end, every value is trimmed, each header
\* line is split at its first colon, and of several lines with one key
\* the last gives the stored value.
C16_HeadersNormalised ==
    psOut.kind = "Ok" =>
        /\ \A e \in psOut.headers :
               /\ NoUpperCase(e[1])
               /\ NoOuterWhitespace(e[1])
               /\ NoOuterWhitespace(e[2])
        /\ psOut.headers = StreamHeaders(psStream)

\* Two header lines whose keys differ only in case and padding, the first
\* of them with two colons: one entry, with the last line's value.
C16_Witness ==
    /\ psOut.kind = "Ok"
    /\ \E p, q \in HeaderLines(psStream) :
           /\ p < q
           /\ HeaderKey(psStream, p) = HeaderKey(psStream, q)
           /\ HeaderValue(psStream, p) # HeaderValue(psStream, q)
           /\ RawKey(psStream, p) # HeaderKey(psStream, p)
           /\ <<HeaderKey(psStream, q), HeaderValue(psStream, q)>> \in psOut.headers
    /\ \E p \in HeaderLines(psStream) :
           Cardinality({i \in 1..Len(LineAt(psStream, p)) : LineAt(psStream, p)[i] = ":"}) > 1

\* The header block is there and the request line is well formed.
HeadAccepted(s) == BlankLines(s) # {} /\ FirstLineTokens(s) = 3

\* The first byte after the blank line.
BodyStart(s) == LineLast(s, FirstBlank(s)) + 1

\* The content-length of the stream: ok when the header is there and its
\* value parses.
DeclaredLength(s) ==
    LET cl == MapGet(StreamHeaders(s), ContentLengthKey)
    IN  IF cl = {} THEN [ok |-> FALSE, value |-> 0]
        ELSE ParseUsize(CHOOSE v \in cl : TRUE)

\* C17: with a content-length that parses as n, the body is exactly the n
\* bytes after the blank line, and parse fails with an I/O error when the
\* connection closes before n bytes have come; with no content-length or
\* one that does not parse, the body is empty and parse succeeds.
C17_BodyByContentLength ==
    (psOut.called /\ HeadAccepted(psStream)) =>
        LET n    == DeclaredLength(psStream)
            from == BodyStart(psStream)
        IN  IF n.ok
            THEN IF Len(psStream) - from + 1 >= n.value
                 THEN /\ psOut.kind = "Ok"
                      /\ Len(psOut.body) = n.value
                      /\ \A i \in 1..n.value : psOut.body[i] = psStream[from + i - 1]
                 ELSE psOut.kind = "UnexpectedEof" /\ psOut.stage = "body"
            ELSE psOut.kind = "Ok" /\ psOut.body = <<>>

\* A declared length of two with three bytes after the blank line.
C17_Witness ==
    /\ psOut.kind = "Ok"
    /\ HeadAccepted(psStream)
    /\ DeclaredLength(psStream).ok
    /\ Len(psOut.body) = 2
    /\ Len(psStream) - BodyStart(psStream) + 1 = 3

\* The bytes "\r\n" stand at position i.
CrlfAt(b, i) == 1 <= i /\ i + 1 <= Len(b) /\ b[i] = "\r" /\ b[i + 1] = "\n"

\* The first empty line of the bytes: the position of its CRLF.
EmptyLineAt(b) ==
    CHOOSE i \in 1..Len(b) :
        /\ (i = 1 \/ CrlfAt(b, i - 2)) /\ CrlfAt(b, i)
        /\ \A j \in 1..(i - 1) : ~((j = 1 \/ CrlfAt(b, j - 2)) /\ CrlfAt(b, j))

HasEmptyLine(b) == \E i \in 1..Len(b) : (i = 1 \/ CrlfAt(b, i - 2)) /\ CrlfAt(b, i)

\* Where the lines before the empty line start.
WireLineStarts(b) == {p \in 1..(EmptyLineAt(b) - 1) : p = 1 \/ CrlfAt(b, p - 2)}

\* The line that starts at p, without its CRLF.
WireLine(b, p) ==
    SubSeq(b, p, (CHOOSE i \in p..Len(b) :
                      CrlfAt(b, i) /\ \A j \in p..(i - 1) : ~CrlfAt(b, j)) - 1)

\* C18: to_bytes gives the status line "HTTP/1.1 <code> <text>" and CRLF,
\* then every entry of the header map exactly once as "<key>: <value>"
\* and CRLF in some order, then an empty line, then the body bytes as
\* they are, and nothing else.
C18_WireFormat ==
    respBytes.called =>
        LET b == respBytes.bytes
        IN  /\ HasEmptyLine(b)
            /\ WireLine(b, 1) = <<"H", "T", "T", "P", "/", "1", ".", "1", " ">> \o FormatNat(response.status_code)
                                    \o <<" ">> \o response.status_text
            /\ Cardinality(WireLineStarts(b) \ {1}) = Cardinality(response.headers)
            /\ \A e \in response.headers :
                   Cardinality({p \in WireLineStarts(b) \ {1} :
                                   WireLine(b, p) = e[1] \o <<":", " ">> \o e[2]}) = 1
            /\ SubSeq(b, EmptyLineAt(b) + 2, Len(b)) = response.body

\* Three headers and a body of a two-byte character, serialized with
\* Content-Length as the first header line.
C18_Witness ==
    /\ respBytes.called
    /\ Cardinality(response.headers) = 3
    /\ response.body = <<"0xC3", "0xA9">>
    /\ \E p \in WireLineStarts(respBytes.bytes) :
           /\ p = Len(WireLine(respBytes.bytes, 1)) + 3
           /\ SubSeq(respBytes.bytes, p, p + 13) = ContentLengthName

\* The number of bytes the characters of a string take in UTF-8.
ByteCount(str) == Len(str) + Cardinality({i \in 1..Len(str) : str[i] = "é"})

\* The decimal numeral of n and no other string.
IsNumeralOf(t, n) ==
    /\ t # <<>>
    /\ \A i \in 1..Len(t) : IsDigit(t[i])
    /\ (Len(t) > 1 => t[1] # "0")
    /\ DigitsValue(t, 0) = n

DefaultHeaders ==
    /\ MapGet(response.headers, ServerKey) = {ServerValue}
    /\ MapGet(response.headers, ContentTypeKey) = {ContentTypeValue}

\* One Content-Length header, for the byte length of the string attached last.
LengthOfLastBody ==
    /\ \E v \in MapGet(response.headers, ContentLengthName) :
           /\ MapGet(response.headers, ContentLengthName) = {v}
           /\ IsNumeralOf(v, ByteCount(bodies[Len(bodies)]))
    /\ Len(response.body) = ByteCount(bodies[Len(bodies)])

\* C19 as stated: after new and any number of with_body calls, none
\* included, the response has the default headers and one Content-Length
\* header for the length of its body.
C19_Original ==
    response.exists =>
        /\ DefaultHeaders
        /\ \E v \in MapGet(response.headers, ContentLengthName) :
               /\ MapGet(response.headers, ContentLengthName) = {v}
               /\ IsNumeralOf(v, Len(response.body))

\* C19: every response made by new and then one or more with_body calls
\* (so every response of ok .. internal_error) has the default Server and
\* Content-Type headers and one Content-Length header whose value is the
\* byte length of the body attached last; a response made by new alone
\* has the two default headers, an empty body and no Content-Length.
C19_ContentLengthFollowsBody ==
    response.exists =>
        /\ DefaultHeaders
        /\ Cardinality(response.headers) = IF bodies = <<>> THEN 2 ELSE 3
        /\ IF bodies = <<>>
           THEN MapGet(response.headers, ContentLengthName) = {} /\ response.body = <<>>
           ELSE LengthOfLastBody

\* A ten-byte body and then a body of one two-byte character.
C19_Witness ==
    /\ response.exists
    /\ Len(bodies) = 2
    /\ Len(bodies[1]) = 10
    /\ bodies[2] = <<"é">>
    /\ MapGet(response.headers, ContentLengthName) = {<<"2">>}

====
